---- MODULE Spec2Model ----
(***************************************************************************)
(* Hero/Team data-access layer of sqlmodel-tutorial.                       *)
(*                                                                         *)
(* Two programs share the domain: app.py (one-to-many, Hero.team_id is a   *)
(* foreign key) and main.py (many-to-many through HeroTeamLink, plus two   *)
(* HTTP endpoints).  `variant` says which program runs.  The store is the  *)
(* committed content of database.db; every operation runs in a Session of  *)
(* its own, opened and closed by a `with` block.                           *)
(*                                                                         *)
(* app.py line 69 ends in a stray character after the closing parenthesis, *)
(* so the file as it stands does not compile.  The functions of app.py are *)
(* modelled as their text reads without that character.                    *)
(***************************************************************************)
EXTENDS Integers, Sequences, FiniteSets, TLC

VARIABLES variant, store, sessions, proc

vars == <<variant, store, sessions, proc>>

\* ---------------------------------------------------------------- bounds
MaxCreateRuns == 2
NProcs == 2

Procs == 1..NProcs
SessionIds == 1..NProcs

\* Python's None: for an Optional[int] column, and for an object reference.
None == -1
NoObj == "None"

\* ------------------------------------------------------------- utilities
Range(s) == {s[i] : i \in DOMAIN s}

Max(S) == CHOOSE x \in S : \A y \in S : y <= x

Min(S) == CHOOSE x \in S : \A y \in S : x <= y

\* ----------------------------------------------------------------- schema
engine == "sqlite:///database.db"

\* The tables registered in SQLModel.metadata by the table=True classes.
metadata(v) == IF v = "app" THEN {"team", "hero"}
               ELSE {"heroteamlink", "team", "hero"}

\* The classes that are mapped (table=True); HeroBase, HeroCreate and
\* HeroRead are data models only.
MappedClasses(v) == IF v = "app" THEN {"Team", "Hero"}
                    ELSE {"HeroTeamLink", "Team", "Hero"}

EmptyStore == [tables |-> {}, team |-> {}, hero |-> {}, link |-> {}]

\* The rows of a store, without its table catalogue.
Rows(st) == [team |-> st.team, hero |-> st.hero, link |-> st.link]

\* INTEGER PRIMARY KEY of SQLite: the largest id in the table plus one.
NextId(rows) == IF rows = {} THEN 1 ELSE Max({r.id : r \in rows}) + 1

\* -------------------------------------------------- in-memory object graph
\* Objects are named by the local variable that holds them.
EmptyFn == [x \in {} |-> NoObj]

EmptyMem == [team |-> EmptyFn, hero |-> EmptyFn, pending |-> <<>>, expired |-> {}]

AppendNew(s, x) == IF x \in Range(s) THEN s ELSE Append(s, x)

\* Team.heroes declared without back_populates: the hero is not told.
back_populates_team_missing(mem, h, t) == mem

\* Team.heroes = Relationship(back_populates="team"): a hero put in
\* t.heroes gets h.team = t.
back_populates_team(mem, h, t) == [mem EXCEPT !.hero[h].team = t]

\* Hero.team = Relationship(back_populates="heroes"): a hero given team t
\* is put in t.heroes.
back_populates_heroes(mem, h, t) ==
    [mem EXCEPT !.team[t].heroes = AppendNew(@, h)]

\* main.py, Team.heroes = Relationship(back_populates="teams", ...).
back_populates_teams(mem, h, t) ==
    [mem EXCEPT !.hero[h].teams = AppendNew(@, t)]

\* team.heroes.append(h), the instrumented list of either program.
heroes_append(v, mem, t, h) ==
    LET m == [mem EXCEPT !.team[t].heroes = Append(@, h)]
    IN  IF v = "app" THEN back_populates_team(m, h, t)
        ELSE back_populates_teams(m, h, t)

RECURSIVE heroes_extend(_, _, _, _)
heroes_extend(v, mem, t, hs) ==
    IF hs = <<>> THEN mem
    ELSE heroes_extend(v, heroes_append(v, mem, t, Head(hs)), t, Tail(hs))

\* Team(name=..., headquarters=..., heroes=[...])
Team(v, mem, t, name, headquarters, heroes) ==
    LET obj == [id |-> None, name |-> name, headquarters |-> headquarters,
                heroes |-> <<>>]
    IN  heroes_extend(v, [mem EXCEPT !.team = (t :> obj) @@ @], t, heroes)

\* app.py: Hero(name=..., secret_name=..., age=..., team=...)
Hero_app(mem, h, name, secret_name, age, team) ==
    LET obj == [id |-> None, name |-> name, secret_name |-> secret_name,
                age |-> age, team_id |-> None, team |-> NoObj]
        m == [mem EXCEPT !.hero = (h :> obj) @@ @]
    IN  IF team = NoObj THEN m
        ELSE back_populates_heroes([m EXCEPT !.hero[h].team = team], h, team)

RECURSIVE teams_extend(_, _, _)
teams_extend(mem, h, ts) ==
    IF ts = <<>> THEN mem
    ELSE teams_extend(
           back_populates_heroes(
             [mem EXCEPT !.hero[h].teams = Append(@, Head(ts))], h, Head(ts)),
           h, Tail(ts))

\* main.py: Hero(name=..., secret_name=..., age=..., teams=[...])
Hero_main(mem, h, name, secret_name, age, teams) ==
    LET obj == [id |-> None, name |-> name, secret_name |-> secret_name,
                age |-> age, teams |-> <<>>]
    IN  teams_extend([mem EXCEPT !.hero = (h :> obj) @@ @], h, teams)

\* The objects a relationship of x leads to (save-update cascade).
Related(v, mem, x) ==
    IF x \in DOMAIN mem.team THEN mem.team[x].heroes
    ELSE IF v = "app"
         THEN (IF mem.hero[x].team = NoObj THEN <<>> ELSE <<mem.hero[x].team>>)
         ELSE mem.hero[x].teams

RECURSIVE cascade(_, _, _, _)
cascade(v, mem, work, acc) ==
    IF work = <<>> THEN acc
    ELSE IF Head(work) \in Range(acc) THEN cascade(v, mem, Tail(work), acc)
    ELSE cascade(v, mem, Related(v, mem, Head(work)) \o Tail(work),
                 Append(acc, Head(work)))

\* session.add(x): x and everything its relationships reach become pending.
session_add(v, mem, x) ==
    [mem EXCEPT !.pending = cascade(v, mem, <<x>>, @)]

\* The objects create_heroes of app.py builds and adds, up to the commit.
create_heroes_build_app ==
    LET m1 == Team("app", EmptyMem, "team_preventers", "Preventers", "Sharp Tower", <<>>)
        m2 == Team("app", m1, "team_z_force", "Z-Force", "Sister Margaret's Bar", <<>>)
        m3 == Hero_app(m2, "hero_1", "Deadpond", "Dive Wilson", None, "team_z_force")
        m4 == Hero_app(m3, "hero_2", "Spider-Boy", "Pedro Parqueador", None, "team_preventers")
        m5 == Hero_app(m4, "hero_3", "Black Lion", "Trevor Challa", 35, NoObj)
        m6 == Hero_app(m5, "hero_4", "Princess Sure-E", "Sure-E", 25, NoObj)
        m7 == Team("app", m6, "team_wakanda", "Wakanda", "Wakanda", <<"hero_3", "hero_4">>)
        m8 == Hero_app(m7, "hero_5", "Rusty-Man", "Tommy Sharp", 48, NoObj)
        m9 == heroes_append("app", m8, "team_wakanda", "hero_5")
        m10 == session_add("app", m9, "hero_1")
        m11 == session_add("app", m10, "hero_2")
    IN  session_add("app", m11, "team_wakanda")

\* The objects create_heroes of main.py builds and adds, up to the commit.
create_heroes_build_main ==
    LET m1 == Team("main", EmptyMem, "team_preventers", "Preventers", "Sharp Tower", <<>>)
        m2 == Team("main", m1, "team_z_force", "Z-Force", "Sister Margaret's Bar", <<>>)
        m3 == Hero_main(m2, "hero_1", "Deadpond", "Dive Wilson", None, <<"team_z_force">>)
        m4 == Hero_main(m3, "hero_2", "Spider-Boy", "Pedro Parqueador", None, <<"team_preventers">>)
        m5 == Hero_main(m4, "hero_3", "Black Lion", "Trevor Challa", 35, <<>>)
        m6 == Hero_main(m5, "hero_4", "Princess Sure-E", "Sure-E", 25, <<>>)
        m7 == Team("main", m6, "team_wakanda", "Wakanda", "Wakanda", <<"hero_3", "hero_4">>)
        m8 == Hero_main(m7, "hero_5", "Rusty-Man", "Tommy Sharp", 48, <<>>)
        m9 == heroes_append("main", m8, "team_wakanda", "hero_5")
        m10 == session_add("main", m9, "hero_1")
        m11 == session_add("main", m10, "hero_2")
    IN  session_add("main", m11, "team_wakanda")

create_heroes_build(v) ==
    IF v = "app" THEN create_heroes_build_app ELSE create_heroes_build_main

\* ------------------------------------------------------------ flush, commit
\* The INSERTs of a flush, in the unit of work's order: the teams, then the
\* heroes that refer to them, then (main.py) the link rows; within a table,
\* in the order the objects became pending.
RECURSIVE LinkItems(_, _, _)
LinkItems(mem, hs, ts) ==
    IF hs = <<>> THEN <<>>
    ELSE LET h == Head(hs)
             mine == SelectSeq(ts, LAMBDA t : \/ t \in Range(mem.hero[h].teams)
                                              \/ h \in Range(mem.team[t].heroes))
         IN  [i \in DOMAIN mine |-> [kind |-> "link", obj |-> h, team |-> mine[i]]]
             \o LinkItems(mem, Tail(hs), ts)

FlushItems(v, mem) ==
    LET ts == SelectSeq(mem.pending, LAMBDA x : x \in DOMAIN mem.team)
        hs == SelectSeq(mem.pending, LAMBDA x : x \in DOMAIN mem.hero)
    IN  [i \in DOMAIN ts |-> [kind |-> "team", obj |-> ts[i], team |-> NoObj]]
        \o [i \in DOMAIN hs |-> [kind |-> "hero", obj |-> hs[i], team |-> NoObj]]
        \o (IF v = "app" THEN <<>> ELSE LinkItems(mem, hs, ts))

\* A flush that takes the foreign key from the plain team_id field only.
sync_team_id_unresolved(mem, h) == mem.hero[h].team_id

\* app.py: the foreign key of a pending hero, taken from the relationship:
\* the team h.team refers to, or a team whose heroes list holds h.
sync_team_id(mem, h) ==
    LET owners == {t \in DOMAIN mem.team :
                      \/ mem.hero[h].team = t
                      \/ h \in Range(mem.team[t].heroes)}
    IN  IF owners = {} THEN mem.hero[h].team_id
        ELSE mem.team[CHOOSE t \in owners : TRUE].id

\* An INSERT that takes the existing row of the same name instead of adding
\* one (get-or-create on a unique name).
flush_one_get_or_create(v, st, item) ==
    LET mem == st.mem
        rows == st.rows
        x == item.obj
    IN  IF item.kind = "team"
        THEN LET old == {r \in rows.team : r.name = mem.team[x].name}
                 id == IF old = {} THEN NextId(rows.team)
                       ELSE (CHOOSE r \in old : TRUE).id
             IN  [mem |-> [mem EXCEPT !.team[x].id = id],
                  rows |-> IF old # {} THEN rows
                           ELSE [rows EXCEPT !.team = @ \cup
                                   {[id |-> id, name |-> mem.team[x].name,
                                     headquarters |-> mem.team[x].headquarters]}]]
        ELSE IF item.kind = "hero"
        THEN LET old == {r \in rows.hero : r.name = mem.hero[x].name}
                 id == IF old = {} THEN NextId(rows.hero)
                       ELSE (CHOOSE r \in old : TRUE).id
                 o == mem.hero[x]
                 fk == IF v = "app" THEN mem.team[o.team].id ELSE None
             IN  [mem |-> IF v = "app"
                          THEN [mem EXCEPT !.hero[x].id = id, !.hero[x].team_id = fk]
                          ELSE [mem EXCEPT !.hero[x].id = id],
                  rows |-> IF old # {} THEN rows
                           ELSE [rows EXCEPT !.hero = @ \cup
                                   {IF v = "app"
                                    THEN [id |-> id, name |-> o.name,
                                          secret_name |-> o.secret_name,
                                          age |-> o.age, team_id |-> fk]
                                    ELSE [id |-> id, name |-> o.name,
                                          secret_name |-> o.secret_name,
                                          age |-> o.age]}]]
        ELSE [mem |-> mem,
              rows |-> [rows EXCEPT !.link = @ \cup
                          {[team_id |-> mem.team[item.team].id,
                            hero_id |-> mem.hero[x].id]}]]

\* One INSERT: the row goes to the transaction's rows, the assigned primary
\* key (and the resolved foreign key) to the object.  st = [mem, rows].
flush_one(v, st, item) ==
    LET mem == st.mem
        rows == st.rows
        x == item.obj
    IN  IF item.kind = "team"
        THEN LET id == NextId(rows.team)
             IN  [mem |-> [mem EXCEPT !.team[x].id = id],
                  rows |-> [rows EXCEPT !.team = @ \cup
                              {[id |-> id, name |-> mem.team[x].name,
                                headquarters |-> mem.team[x].headquarters]}]]
        ELSE IF item.kind = "hero"
        THEN LET id == NextId(rows.hero)
                 o == mem.hero[x]
             IN  IF v = "app"
                 THEN LET fk == sync_team_id(mem, x)
                      IN  [mem |-> [mem EXCEPT !.hero[x].id = id,
                                               !.hero[x].team_id = fk],
                           rows |-> [rows EXCEPT !.hero = @ \cup
                              {[id |-> id, name |-> o.name,
                                secret_name |-> o.secret_name, age |-> o.age,
                                team_id |-> fk]}]]
                 ELSE [mem |-> [mem EXCEPT !.hero[x].id = id],
                       rows |-> [rows EXCEPT !.hero = @ \cup
                              {[id |-> id, name |-> o.name,
                                secret_name |-> o.secret_name, age |-> o.age]}]]
        ELSE [mem |-> mem,
              rows |-> [rows EXCEPT !.link = @ \cup
                          {[team_id |-> mem.team[item.team].id,
                            hero_id |-> mem.hero[x].id]}]]

\* The first k INSERTs of a flush.
RECURSIVE flush(_, _, _, _)
flush(v, st, items, k) ==
    IF items = <<>> \/ k = 0 THEN st
    ELSE flush(v, flush_one(v, st, Head(items)), Tail(items), k - 1)

\* A failed flush whose INSERTs so far stay in the store (no rollback).
rollback_partial(committed, partial) == partial

\* What a failed flush leaves in the store: the Session rolls the
\* transaction back, so the committed rows stand.
rollback(committed, partial) == committed

\* After a commit every object of the session is expired.
expire_all(mem) == [mem EXCEPT !.expired = Range(mem.pending)]

\* Loading an expired hero again (attribute access, session.refresh).
refresh_hero(v, mem, rows, h) ==
    LET r == CHOOSE r \in rows.hero : r.id = mem.hero[h].id
        o == mem.hero[h]
    IN  [mem EXCEPT
           !.expired = @ \ {h},
           !.hero[h] = IF v = "app"
                       THEN [o EXCEPT !.name = r.name, !.secret_name = r.secret_name,
                                      !.age = r.age, !.team_id = r.team_id]
                       ELSE [o EXCEPT !.name = r.name, !.secret_name = r.secret_name,
                                      !.age = r.age]]

\* The attributes of a Hero instance.
HeroAttributes(v) ==
    IF v = "app" THEN {"id", "name", "secret_name", "age", "team_id", "team"}
    ELSE {"id", "name", "secret_name", "age", "teams"}

\* ----------------------------------------------------- repository operations
NoOut == [kind |-> "none"]

\* create_heroes, from the construction of the objects to its last line.
\* k is the number of INSERTs the store accepts: all of them, or fewer when
\* the store fails (no such table, database locked, disk error).
create_heroes_body(v, st, k) ==
    LET mem0 == create_heroes_build(v)
        items == FlushItems(v, mem0)
        n == IF st.tables = metadata(v) THEN k ELSE 0
        fl == flush(v, [mem |-> mem0, rows |-> Rows(st)], items, n)
    IN  IF n < Len(items)
        THEN LET kept == rollback(Rows(st), fl.rows)
             IN  [store |-> [st EXCEPT !.team = kept.team, !.hero = kept.hero,
                                       !.link = kept.link],
                  err |-> "OperationalError", sess |-> "open",
                  out |-> [kind |-> "create_heroes", committed |-> FALSE,
                           inserted |-> n, mem |-> mem0]]
        ELSE LET m1 == expire_all(fl.mem)
                 m2 == refresh_hero(v, m1, fl.rows, "hero_1")
                 m3 == refresh_hero(v, m2, fl.rows, "hero_2")
             IN  [store |-> [st EXCEPT !.team = fl.rows.team, !.hero = fl.rows.hero,
                                       !.link = fl.rows.link],
                  err |-> IF "team_id" \in HeroAttributes(v) THEN NoObj
                          ELSE "AttributeError",
                  sess |-> "in_txn",
                  out |-> [kind |-> "create_heroes", committed |-> TRUE,
                           inserted |-> n, mem |-> m3]]

\* The hero of an outer join with no team: every team column is NULL.
NoTeam == [id |-> None, name |-> NoObj, headquarters |-> NoObj]

\* app.py: hero LEFT OUTER JOIN team ON hero.team_id = team.id
outer_join(st) ==
    UNION {LET ts == {t \in st.team : t.id = h.team_id}
           IN  IF ts = {} THEN {[hero |-> h, team |-> NoTeam]}
               ELSE {[hero |-> h, team |-> t] : t \in ts}
           : h \in st.hero}

\* The foreign keys from the hero table to the team table, from which
\* join(Team) takes its ON clause.
HeroTeamForeignKeys(v) == IF v = "app" THEN {"team_id"} ELSE {}

\* select_heroes: select(Hero, Team).join(Team, isouter=True).  txn says
\* whether the statement reached the connection before it was rejected.
select_heroes_body(v, st, txn) ==
    IF HeroTeamForeignKeys(v) = {}
    THEN [store |-> st, err |-> "InvalidRequestError",
          sess |-> IF txn THEN "in_txn" ELSE "open", out |-> NoOut]
    ELSE IF st.tables # metadata(v)
    THEN [store |-> st, err |-> "OperationalError", sess |-> "in_txn", out |-> NoOut]
    ELSE [store |-> st, err |-> NoObj, sess |-> "in_txn",
          out |-> [kind |-> "select_heroes", pairs |-> outer_join(st)]]

\* select(Hero).where(Hero.name == name)
where_name(st, name) == {h \in st.hero : h.name = name}

\* A lookup that takes the first match when there are several.
one_first(rows) ==
    IF rows = {} THEN [err |-> "NoResultFound", row |-> {}]
    ELSE [err |-> NoObj, row |-> {CHOOSE r \in rows : \A q \in rows : r.id <= q.id}]

\* results.one(): the only row, or the reason there is not exactly one.
one(rows) ==
    IF rows = {} THEN [err |-> "NoResultFound", row |-> {}]
    ELSE IF Cardinality(rows) > 1 THEN [err |-> "MultipleResultsFound", row |-> {}]
    ELSE [err |-> NoObj, row |-> rows]

\* results.first(): the row of the smallest rowid, if any.
first(rows) ==
    IF rows = {} THEN {}
    ELSE {CHOOSE r \in rows : \A q \in rows : r.id <= q.id}

\* An UPDATE that lost its WHERE clause.
update_age_all(st, id, age) ==
    [st EXCEPT !.hero = {[h EXCEPT !.age = age] : h \in @}]

\* UPDATE hero SET age = ... WHERE id = ...
update_age(st, id, age) ==
    [st EXCEPT !.hero = {IF h.id = id THEN [h EXCEPT !.age = age] ELSE h : h \in @}]

\* An instance the Session loaded from a row.
Loaded(row) == [loaded |-> TRUE, row |-> row]

\* What a commit does to an instance of the session: a deleted one is
\* detached and keeps its attributes, any other is expired.
after_commit(inst, deleted) ==
    IF deleted THEN inst ELSE [inst EXCEPT !.loaded = FALSE]

\* session.refresh(inst): the attributes are read again from the store.
refresh(st, inst) ==
    Loaded(CHOOSE h \in st.hero : h.id = inst.row.id)

\* update_heroes; ok says whether the store accepts the commit.
update_heroes_body(v, st, ok) ==
    IF st.tables # metadata(v)
    THEN [store |-> st, err |-> "OperationalError", sess |-> "in_txn", out |-> NoOut]
    ELSE LET res == one(where_name(st, "Spider-Boy"))
         IN  IF res.err # NoObj
             THEN [store |-> st, err |-> res.err, sess |-> "in_txn", out |-> NoOut]
             ELSE LET hero == CHOOSE h \in res.row : TRUE
                      st1 == update_age(st, hero.id, 16)
                  IN  IF ~ok
                      THEN [store |-> st, err |-> "OperationalError", sess |-> "open",
                            out |-> NoOut]
                      ELSE [store |-> st1, err |-> NoObj, sess |-> "in_txn",
                            out |-> [kind |-> "update_heroes", found |-> hero,
                                     hero |-> refresh(st1,
                                        after_commit(Loaded([hero EXCEPT !.age = 16]),
                                                     FALSE))]]

\* A delete that never reaches the store.
delete_row_kept(v, st, id) == st

\* DELETE of a hero row; in main.py the Session also deletes the rows of the
\* link table that belong to the hero's teams collection.
delete_row(v, st, id) ==
    [st EXCEPT !.hero = {h \in @ : h.id # id},
               !.link = {l \in @ : l.hero_id # id}]

\* delete_heroes; ok says whether the store accepts the commit.
delete_heroes_body(v, st, ok) ==
    IF st.tables # metadata(v)
    THEN [store |-> st, err |-> "OperationalError", sess |-> "in_txn", out |-> NoOut]
    ELSE LET res == one(where_name(st, "Spider-Boy"))
         IN  IF res.err # NoObj
             THEN [store |-> st, err |-> res.err, sess |-> "in_txn", out |-> NoOut]
             ELSE LET hero == CHOOSE h \in res.row : TRUE
                      st1 == delete_row(v, st, hero.id)
                  IN  IF ~ok
                      THEN [store |-> st, err |-> "OperationalError", sess |-> "open",
                            out |-> NoOut]
                      ELSE [store |-> st1, err |-> NoObj, sess |-> "in_txn",
                            out |-> [kind |-> "delete_heroes", found |-> hero,
                                     hero |-> after_commit(Loaded(hero), TRUE),
                                     after |-> first(where_name(st1, "Spider-Boy"))]]

\* A materialization that drops the tables before it creates them.
create_all_drop(v, st) == [EmptyStore EXCEPT !.tables = metadata(v)]

\* SQLModel.metadata.create_all(engine): CREATE TABLE for the tables that do
\* not exist yet (checkfirst), nothing for those that do.
create_all(v, st) ==
    [st EXCEPT !.tables = @ \cup (metadata(v) \ @)]

\* ------------------------------------------------------------- API surface
\* The bodies POST /heroes is tried with: HeroCreate has name, secret_name
\* and an optional age, and no id.
HeroCreateBodies ==
    {[cls |-> "HeroCreate", name |-> "Deadpond", secret_name |-> "Dive Wilson",
      age |-> None],
     [cls |-> "HeroCreate", name |-> "Spider-Boy", secret_name |-> "Pedro Parqueador",
      age |-> 16]}

\* Hero.model_validate(hero): a new Hero with the fields of hero.
model_validate(hero) ==
    [cls |-> "Hero", id |-> None, name |-> hero.name,
     secret_name |-> hero.secret_name, age |-> hero.age]

\* INSERT of one hero row of main.py.
insert_hero(st, o) ==
    [st EXCEPT !.hero = @ \cup {[id |-> NextId(st.hero), name |-> o.name,
                                  secret_name |-> o.secret_name, age |-> o.age]}]

\* create_hero: the object given to session.add is the request body `hero`,
\* not db_hero; session.add refuses an instance of a class that is not mapped.
create_hero_body(v, st, hero) ==
    LET db_hero == model_validate(hero)
        added == hero
    IN  IF added.cls \notin MappedClasses(v)
        THEN [store |-> st, err |-> "UnmappedInstanceError", sess |-> "open",
              out |-> [kind |-> "create_hero", body |-> hero, returned |-> {}]]
        ELSE IF st.tables # metadata(v)
        THEN [store |-> st, err |-> "OperationalError", sess |-> "open",
              out |-> [kind |-> "create_hero", body |-> hero, returned |-> {}]]
        ELSE LET st1 == insert_hero(st, added)
             IN  [store |-> st1, err |-> NoObj, sess |-> "in_txn",
                  out |-> [kind |-> "create_hero", body |-> hero,
                           returned |-> st1.hero \ st.hero]]

\* read_heroes: session.exec(select(Hero)).all()
read_heroes_body(v, st) ==
    IF st.tables # metadata(v)
    THEN [store |-> st, err |-> "OperationalError", sess |-> "in_txn", out |-> NoOut]
    ELSE [store |-> st, err |-> NoObj, sess |-> "in_txn",
          out |-> [kind |-> "read_heroes", heroes |-> st.hero]]

\* ---------------------------------------------------------------- sessions
Closed == [st |-> "closed", bind |-> NoObj]

\* One module-level Session handed to every caller.
Session_shared(ss) == 1

\* Session(engine): a new Session object, bound to the engine.
Session(ss) == Min({s \in SessionIds : ss[s].st = "closed"})

\* A Session closed on the successful path only.
close_on_success(ss, s, err) == IF err = NoObj THEN [ss EXCEPT ![s] = Closed] ELSE ss

\* `with Session(engine) as session:` leaves through session.close() on
\* every path: the transaction is ended and the connection released.
close(ss, s, err) == [ss EXCEPT ![s] = Closed]

RepoOps == {"create_heroes", "select_heroes", "update_heroes", "delete_heroes"}

Endpoints == {"create_hero", "read_heroes"}

Ops(v) == IF v = "app" THEN RepoOps ELSE RepoOps \cup Endpoints

\* The functions of the script run on its one thread (main(), on_startup);
\* the two endpoints of main.py are served on any thread of the server.
Threads(op) == IF op \in Endpoints THEN Procs ELSE {1}

Idle == [pc |-> "idle", op |-> NoObj, sess |-> 0, err |-> NoObj, out |-> NoOut]

CreateRuns == Cardinality(store.team) \div 3

Starting == {q \in Procs : proc[q].op = "create_heroes" /\ proc[q].pc = "body"}

\* ------------------------------------------------------------------ actions
Init ==
    /\ variant \in {"app", "main"}
    /\ store = EmptyStore
    /\ sessions = [s \in SessionIds |-> Closed]
    /\ proc = [p \in Procs |-> Idle]

\* def create_db_and_tables()
create_db_and_tables(p) ==
    /\ p \in Threads("create_db_and_tables")
    /\ proc[p].pc = "idle"
    /\ store' = create_all(variant, store)
    /\ proc' = [proc EXCEPT ![p] = [pc |-> "return", op |-> "create_db_and_tables",
                  sess |-> 0, err |-> NoObj,
                  out |-> [kind |-> "create_db_and_tables",
                           existed |-> store.tables]]]
    /\ UNCHANGED <<variant, sessions>>

\* The operation returns to its caller, or its exception reaches it.
Return(p) ==
    /\ proc[p].pc = "return"
    /\ proc' = [proc EXCEPT ![p] = Idle]
    /\ UNCHANGED <<variant, store, sessions>>

\* with Session(engine) as session:  (entry)
Session_enter(p, op) ==
    /\ p \in Threads(op)
    /\ op \in Ops(variant)
    /\ proc[p].pc = "idle"
    /\ op = "create_heroes" => CreateRuns + Cardinality(Starting) < MaxCreateRuns
    /\ LET s == Session(sessions)
       IN  /\ sessions' = [sessions EXCEPT ![s] = [st |-> "open", bind |-> engine]]
           /\ proc' = [proc EXCEPT ![p] = [Idle EXCEPT !.pc = "body", !.op = op,
                                                      !.sess = s]]
    /\ UNCHANGED <<variant, store>>

\* The body of an operation, from a result record [store, err, sess, out].
Body(p, r) ==
    /\ store' = r.store
    /\ sessions' = [sessions EXCEPT ![proc[p].sess].st = r.sess]
    /\ proc' = [proc EXCEPT ![p].pc = "exit", ![p].err = r.err, ![p].out = r.out]
    /\ UNCHANGED variant

At(p, op) == proc[p].pc = "body" /\ proc[p].op = op

create_heroes(p) ==
    /\ At(p, "create_heroes")
    /\ \E k \in 0..Len(FlushItems(variant, create_heroes_build(variant))) :
          Body(p, create_heroes_body(variant, store, k))

select_heroes(p) ==
    /\ At(p, "select_heroes")
    /\ \E txn \in BOOLEAN : Body(p, select_heroes_body(variant, store, txn))

update_heroes(p) ==
    /\ At(p, "update_heroes")
    /\ \E ok \in BOOLEAN : Body(p, update_heroes_body(variant, store, ok))

delete_heroes(p) ==
    /\ At(p, "delete_heroes")
    /\ \E ok \in BOOLEAN : Body(p, delete_heroes_body(variant, store, ok))

create_hero(p) ==
    /\ At(p, "create_hero")
    /\ \E hero \in HeroCreateBodies : Body(p, create_hero_body(variant, store, hero))

read_heroes(p) ==
    /\ At(p, "read_heroes")
    /\ Body(p, read_heroes_body(variant, store))

\* with Session(engine) as session:  (exit, by return or by exception)
Session_exit(p) ==
    /\ proc[p].pc = "exit"
    /\ sessions' = close(sessions, proc[p].sess, proc[p].err)
    /\ proc' = [proc EXCEPT ![p].pc = "return", ![p].sess = 0]
    /\ UNCHANGED <<variant, store>>

Next ==
    \E p \in Procs :
        \/ create_db_and_tables(p)
        \/ Return(p)
        \/ \E op \in RepoOps \cup Endpoints : Session_enter(p, op)
        \/ create_heroes(p)
        \/ select_heroes(p)
        \/ update_heroes(p)
        \/ delete_heroes(p)
        \/ create_hero(p)
        \/ read_heroes(p)
        \/ Session_exit(p)

Spec == Init /\ [][Next]_vars

\* ------------------------------------------------------------------ claims
InSession(p) == proc[p].pc \in {"body", "exit"}

Returned(p, op) == proc[p].pc = "return" /\ proc[p].op = op

Exiting(p, op) == proc[p].pc = "exit" /\ proc[p].op = op

\* C1: for every valid POST /heroes body, create_hero ends without an error,
\* has stored exactly one new Hero row, and returns that row with its fields
\* and a store-assigned id.
C1_CreateHeroPersists ==
    \A p \in Procs :
        (Returned(p, "create_hero") /\ store.tables = metadata(variant)) =>
            /\ proc[p].err = NoObj
            /\ Cardinality(proc[p].out.returned) = 1
            /\ \A r \in proc[p].out.returned :
                  /\ r.id # None
                  /\ r.name = proc[p].out.body.name
                  /\ r.secret_name = proc[p].out.body.secret_name
                  /\ r.age = proc[p].out.body.age

\* C2: create_heroes is all-or-nothing: when an insert of its flush fails,
\* neither the failing body nor the exit of the with block changes the
\* store, so the store is the one before the call.
C2_AllOrNothing ==
    [][\A p \in Procs :
         /\ (At(p, "create_heroes") /\ proc'[p].pc = "exit"
               /\ ~proc'[p].out.committed) => store' = store
         /\ (Exiting(p, "create_heroes") /\ proc'[p].pc = "return"
               /\ ~proc[p].out.committed) => store' = store]_vars

C2_Witness ==
    \E p \in Procs :
        /\ Returned(p, "create_heroes")
        /\ ~proc[p].out.committed
        /\ proc[p].out.inserted > 0
        /\ store.tables = metadata(variant)

\* The (hero, team) pairs create_heroes associates before the commit.
Associated(v, mem) ==
    {ht \in (DOMAIN mem.hero) \X (DOMAIN mem.team) :
        \/ ht[1] \in Range(mem.team[ht[2]].heroes)
        \/ IF v = "app" THEN mem.hero[ht[1]].team = ht[2]
           ELSE ht[2] \in Range(mem.hero[ht[1]].teams)}

C4_EveryHeroSelected ==
    \A p \in Procs :
        (Exiting(p, "select_heroes") /\ store.tables = metadata(variant)) =>
            \A h \in store.hero :
                /\ proc[p].err = NoObj
                /\ \E pr \in proc[p].out.pairs : pr.hero = h

\* C5: when the filter name == "Spider-Boy" matches no row or several,
\* update_heroes ends in NoResultFound or MultipleResultsFound and leaves the
\* store as it was.
C5_NotExactlyOne ==
    [][\A p \in Procs :
         (/\ At(p, "update_heroes")
          /\ proc'[p].pc = "exit"
          /\ store.tables = metadata(variant)
          /\ Cardinality(where_name(store, "Spider-Boy")) # 1) =>
             /\ proc'[p].err = IF where_name(store, "Spider-Boy") = {}
                               THEN "NoResultFound" ELSE "MultipleResultsFound"
             /\ store' = store]_vars

C5_Witness ==
    \E p \in Procs :
        /\ Exiting(p, "update_heroes")
        /\ proc[p].err = "MultipleResultsFound"
        /\ Cardinality(where_name(store, "Spider-Boy")) = 2

\* C6: when delete_heroes found exactly one row, then after its commit the
\* same filter selects nothing, and the Hero object still holds the values
\* it had before the delete.
C6_DeletedAndRetained ==
    \A p \in Procs :
        (Exiting(p, "delete_heroes") /\ proc[p].err = NoObj) =>
            /\ proc[p].out.after = {}
            /\ where_name(store, "Spider-Boy") = {}
            /\ proc[p].out.hero.loaded
            /\ proc[p].out.hero.row = proc[p].out.found
            /\ proc[p].out.found.name = "Spider-Boy"

C6_Witness ==
    \E p \in Procs :
        /\ Exiting(p, "delete_heroes")
        /\ proc[p].err = NoObj
        /\ store.hero # {}

\* C7: create_db_and_tables raises nothing, leaves exactly the tables of the
\* metadata, changes no row, and changes nothing at all when the tables exist.
C7_CreateAllIdempotent ==
    [][\A p \in Procs :
         (proc[p].pc = "idle" /\ proc'[p].pc = "return") =>
             /\ proc'[p].err = NoObj
             /\ store'.tables = metadata(variant)
             /\ Rows(store') = Rows(store)
             /\ (store.tables = metadata(variant) => store' = store)]_vars

C7_Witness ==
    \E p \in Procs :
        /\ Returned(p, "create_db_and_tables")
        /\ proc[p].out.existed = metadata(variant)
        /\ store.hero # {}

\* C8: no Session is used by two requests at once: the operations in
\* progress hold pairwise different Sessions, each open and bound to the one
\* engine.
C8_SessionPerRequest ==
    /\ \A p, q \in Procs :
          (p # q /\ InSession(p) /\ InSession(q)) => proc[p].sess # proc[q].sess
    /\ \A p \in Procs :
          InSession(p) => /\ proc[p].sess \in SessionIds
                          /\ sessions[proc[p].sess].st # "closed"
                          /\ sessions[proc[p].sess].bind = engine

C8_Witness ==
    \E p, q \in Procs :
        /\ p # q
        /\ InSession(p) /\ proc[p].op = "create_hero"
        /\ InSession(q) /\ proc[q].op = "read_heroes"

\* C9: no Session outlives the operation that opened it: every Session that
\* is not closed belongs to an operation still inside its with block.
C9_SessionReleased ==
    /\ \A s \in SessionIds :
          sessions[s].st # "closed" =>
              \E p \in Procs : InSession(p) /\ proc[p].sess = s
    /\ \A p \in Procs : ~InSession(p) => proc[p].sess = 0

C9_Witness ==
    \E p \in Procs :
        /\ proc[p].pc = "return"
        /\ proc[p].op \in RepoOps \cup Endpoints
        /\ proc[p].err # NoObj
        /\ \A s \in SessionIds : sessions[s].st = "closed"

\* C10: the object graph create_heroes builds is consistent in both
\* directions (h is in t.heroes exactly when h.team is t, or t is in h.teams),
\* and no stored foreign key or link row refers to a missing Team row.
C10_BidirectionalNoOrphans ==
    /\ \A p \in Procs :
          Exiting(p, "create_heroes") =>
              LET mem == proc[p].out.mem
              IN  /\ \A h \in DOMAIN mem.hero, t \in DOMAIN mem.team :
                        (h \in Range(mem.team[t].heroes)) <=>
                            (IF variant = "app" THEN mem.hero[h].team = t
                             ELSE t \in Range(mem.hero[h].teams))
                  /\ \A h \in DOMAIN mem.hero :
                        \E t \in DOMAIN mem.team : h \in Range(mem.team[t].heroes)
    /\ variant = "app" =>
          \A r \in store.hero :
              r.team_id # None => \E t \in store.team : t.id = r.team_id
    /\ \A l \in store.link :
          /\ \E t \in store.team : t.id = l.team_id
          /\ \E r \in store.hero : r.id = l.hero_id

C10_Witness ==
    \E p \in Procs :
        /\ Exiting(p, "create_heroes")
        /\ proc[p].out.committed
        /\ variant = "app"
        /\ proc[p].out.mem.hero["hero_3"].team = "team_wakanda"
        /\ "hero_1" \in Range(proc[p].out.mem.team["team_z_force"].heroes)
        /\ \E r \in store.hero : r.name = "Black Lion" /\ r.team_id # None

Ids(rows) == {r.id : r \in rows}

BodyStep(p, op) == At(p, op) /\ proc'[p].pc = "exit"

\* C11: the objects create_heroes builds have no id before the commit; the
\* commit gives each an id of the store that no earlier row had; no later
\* step changes the id of a stored Team or Hero (a row stays, or is the
\* selected row with only its age set by update_heroes, or is deleted by
\* delete_heroes); and update_heroes changes nothing but that one age.
C11_IdsAssignedOnceAndKept ==
    [][/\ \A p \in Procs :
            BodyStep(p, "create_heroes") =>
                LET built == create_heroes_build(variant)
                    mem == proc'[p].out.mem
                IN  /\ \A h \in DOMAIN built.hero : built.hero[h].id = None
                    /\ \A t \in DOMAIN built.team : built.team[t].id = None
                    /\ proc'[p].out.committed =>
                          /\ \A h \in DOMAIN mem.hero :
                                /\ mem.hero[h].id \notin Ids(store.hero)
                                /\ mem.hero[h].id \in Ids(store'.hero)
                          /\ \A t \in DOMAIN mem.team :
                                /\ mem.team[t].id \notin Ids(store.team)
                                /\ mem.team[t].id \in Ids(store'.team)
                          /\ Cardinality({mem.hero[h].id : h \in DOMAIN mem.hero}) = 5
                          /\ Cardinality({mem.team[t].id : t \in DOMAIN mem.team}) = 3
       /\ store.team \subseteq store'.team
       /\ \A r \in store.hero :
            \/ r \in store'.hero
            \/ /\ \E p \in Procs : BodyStep(p, "update_heroes")
               /\ r.name = "Spider-Boy"
               /\ [r EXCEPT !.age = 16] \in store'.hero
            \/ /\ \E p \in Procs : BodyStep(p, "delete_heroes")
               /\ r.name = "Spider-Boy"
               /\ r.id \notin Ids(store'.hero)
       /\ \A r, q \in store'.hero : r.id = q.id => r = q
       /\ \A r, q \in store'.team : r.id = q.id => r = q
       /\ \A p \in Procs :
            (BodyStep(p, "update_heroes") /\ proc'[p].err = NoObj) =>
                LET out == proc'[p].out
                IN  /\ out.hero.row.id = out.found.id
                    /\ out.hero.row = [out.found EXCEPT !.age = 16]
                    /\ out.found \in store.hero
                    /\ store'.hero = (store.hero \ {out.found}) \cup {out.hero.row}
                    /\ store'.team = store.team
                    /\ store'.link = store.link
                    /\ store'.tables = store.tables]_vars

C11_Witness ==
    \E p \in Procs :
        /\ Exiting(p, "update_heroes")
        /\ proc[p].err = NoObj
        /\ proc[p].out.found.age = None
        /\ proc[p].out.hero.row.age = 16
        /\ proc[p].out.hero.row.id = 2
        /\ Cardinality(store.hero) = 5

SpiderBoys(st) == where_name(st, "Spider-Boy")

\* C12, as stated: after two or more successful runs of create_heroes the
\* store holds several rows named "Spider-Boy".
C12_SeveralAfterTwoRuns ==
    CreateRuns >= 2 => Cardinality(SpiderBoys(store)) >= 2

\* C12, amended: every successful run of create_heroes adds 5 Hero rows, one
\* of them named "Spider-Boy", and 3 Team rows to whatever the store holds,
\* so a run on a store that still has such a row leaves several; and with
\* two or more such rows, or with none, update_heroes and delete_heroes end
\* in MultipleResultsFound or NoResultFound and change nothing.
C12_RunsAddRows ==
    [][/\ \A p \in Procs :
            (BodyStep(p, "create_heroes") /\ proc'[p].out.committed) =>
                /\ store.hero \subseteq store'.hero
                /\ store.team \subseteq store'.team
                /\ Cardinality(store'.hero) = Cardinality(store.hero) + 5
                /\ Cardinality(store'.team) = Cardinality(store.team) + 3
                /\ Cardinality(SpiderBoys(store')) = Cardinality(SpiderBoys(store)) + 1
                /\ variant = "main" =>
                      Cardinality(store'.link) = Cardinality(store.link) + 5
                /\ SpiderBoys(store) # {} => Cardinality(SpiderBoys(store')) >= 2
       /\ \A p \in Procs :
            \A op \in {"update_heroes", "delete_heroes"} :
                (/\ BodyStep(p, op)
                 /\ store.tables = metadata(variant)
                 /\ Cardinality(SpiderBoys(store)) # 1) =>
                    /\ proc'[p].err = IF SpiderBoys(store) = {}
                                      THEN "NoResultFound"
                                      ELSE "MultipleResultsFound"
                    /\ store' = store]_vars

C12_Witness ==
    \E p \in Procs :
        /\ Exiting(p, "delete_heroes")
        /\ proc[p].err = "MultipleResultsFound"
        /\ Cardinality(store.hero) = 10
        /\ Cardinality(store.team) = 6
        /\ Cardinality(SpiderBoys(store)) = 2

====
